---- MODULE Spec2Model ----
(***************************************************************************)
(* Model of the migration engine of eden-go-migration (src/migration.go,   *)
(* lines 1-359): file name parsing, version ordering, the SQL statement    *)
(* splitter, the sys_db_version ledger and the Migrate state machine.      *)
(*                                                                         *)
(* Text is modelled as a tuple of one-character strings, so that parsing   *)
(* and splitting are computed character by character like the code does.   *)
(***************************************************************************)
EXTENDS Integers, Sequences, FiniteSets, TLC

\* ------------------------------------------------------------------------
\* Bounds of the model
\* ------------------------------------------------------------------------

\* number of sequential Migrate invocations explored
MaxRuns == 2

\* largest number of files in the script directory
MaxFiles == 3

\* number of times the content of scripts is edited between runs
MaxTamper == 1

\* largest number of dot-separated groups in the version part of a candidate
\* file name
MaxGroups == 4

\* largest number of components of a version handed to compareVersions
MaxParts == 2

\* largest number of items (statements, comments) of a script text handed to
\* splitSQLStatements
MaxItems == 3

\* ------------------------------------------------------------------------
\* Text helpers
\* ------------------------------------------------------------------------

Digits == {"0", "1", "2", "3", "4", "5", "6", "7", "8", "9"}

DigitVal(c) ==
    CASE c = "0" -> 0 [] c = "1" -> 1 [] c = "2" -> 2 [] c = "3" -> 3
      [] c = "4" -> 4 [] c = "5" -> 5 [] c = "6" -> 6 [] c = "7" -> 7
      [] c = "8" -> 8 [] c = "9" -> 9 [] OTHER -> 0

\* unicode.IsSpace restricted to the characters of the model's alphabet
WhiteSpace == {" ", "\t", "\n", "\r"}

\* s[from..Len(s)]
Tail_(s, from) == SubSeq(s, from, Len(s))

\* does text t occur in s at position i
At(s, i, t) == i >= 1 /\ i + Len(t) - 1 <= Len(s) /\ SubSeq(s, i, i + Len(t) - 1) = t

\* strings.TrimSpace
TrimSpace(s) ==
    LET keep == {i \in 1..Len(s) : s[i] \notin WhiteSpace}
    IN  IF keep = {} THEN <<>>
        ELSE LET lo == CHOOSE i \in keep : \A j \in keep : i <= j
                 hi == CHOOSE i \in keep : \A j \in keep : i >= j
             IN  SubSeq(s, lo, hi)

\* strings.Split(s, "."): the parts between the dots, empty parts included
RECURSIVE SplitDot(_)
SplitDot(s) ==
    LET dots == {i \in 1..Len(s) : s[i] = "."}
    IN  IF dots = {} THEN <<s>>
        ELSE LET d == CHOOSE i \in dots : \A j \in dots : i <= j
             IN  <<SubSeq(s, 1, d - 1)>> \o SplitDot(Tail_(s, d + 1))

\* ------------------------------------------------------------------------
\* Version comparison
\* ------------------------------------------------------------------------

\* value of a run of decimal digits
RECURSIVE DecValue(_)
DecValue(s) ==
    IF s = <<>> THEN 0
    ELSE 10 * DecValue(SubSeq(s, 1, Len(s) - 1)) + DigitVal(s[Len(s)])

\* a run of digits without its leading zeros (one digit is always left)
RECURSIVE StripZeros(_)
StripZeros(s) ==
    IF Len(s) > 1 /\ s[1] = "0" THEN StripZeros(Tail(s)) ELSE s

\* the largest int of a 64 bit build, 1<<63 - 1, and the magnitude of the
\* smallest, 1<<63, in decimal
MaxIntText == <<"9", "2", "2", "3", "3", "7", "2", "0", "3", "6",
                "8", "5", "4", "7", "7", "5", "8", "0", "7">>
MinIntText == <<"9", "2", "2", "3", "3", "7", "2", "0", "3", "6",
                "8", "5", "4", "7", "7", "5", "8", "0", "8">>

\* strconv.ParseInt reports a range error: the magnitude written by the
\* digits of body is above the limit
OutOfRange(body, limit) ==
    LET d == StripZeros(body)
    IN  \/ Len(d) > Len(limit)
        \/ /\ Len(d) = Len(limit)
           /\ \E i \in 1..Len(d) :
                 /\ DigitVal(d[i]) > DigitVal(limit[i])
                 /\ \A j \in 1..(i - 1) : d[j] = limit[j]

\* strconv.Atoi: optional sign, then one or more decimal digits that write a
\* value of the int range; anything else is an error.  (The values the model
\* computes with are small; a text is either short or out of the range.)
Atoi(p) ==
    LET signed == Len(p) > 0 /\ p[1] \in {"+", "-"}
        body   == IF signed THEN Tail_(p, 2) ELSE p
        ok     == /\ Len(body) > 0
                  /\ \A i \in 1..Len(body) : body[i] \in Digits
                  /\ ~OutOfRange(body, IF signed /\ p[1] = "-" THEN MinIntText
                                                              ELSE MaxIntText)
    IN  [err |-> ~ok,
         val |-> IF ~ok THEN 0
                 ELSE IF signed /\ p[1] = "-" THEN 0 - DecValue(body)
                 ELSE DecValue(body)]

parseVersionParts(version) ==
    LET parts == SplitDot(version)
    IN  [i \in 1..Len(parts) |->
            IF Atoi(parts[i]).err THEN 0 ELSE Atoi(parts[i]).val]

\* compareVersions whose loop runs over the positions of a only
compareVersionsLeftLength(a, b) ==
    LET partsA == parseVersionParts(a)
        partsB == parseVersionParts(b)
        valB(i) == IF i <= Len(partsB) THEN partsB[i] ELSE 0
        diff   == {i \in 1..Len(partsA) : partsA[i] # valB(i)}
    IN  IF diff = {} THEN 0
        ELSE LET i == CHOOSE k \in diff : \A j \in diff : k <= j
             IN  IF partsA[i] < valB(i) THEN -1 ELSE 1

\* -1, 0 or 1
compareVersions(a, b) ==
    LET partsA == parseVersionParts(a)
        partsB == parseVersionParts(b)
        maxLen == IF Len(partsB) > Len(partsA) THEN Len(partsB) ELSE Len(partsA)
        valA(i) == IF i <= Len(partsA) THEN partsA[i] ELSE 0
        valB(i) == IF i <= Len(partsB) THEN partsB[i] ELSE 0
        diff   == {i \in 1..maxLen : valA(i) # valB(i)}
    IN  IF diff = {} THEN 0
        ELSE LET i == CHOOSE k \in diff : \A j \in diff : k <= j
             IN  IF valA(i) < valB(i) THEN -1 ELSE 1

\* ------------------------------------------------------------------------
\* File names
\* ------------------------------------------------------------------------

\* end of the longest run of digits that starts at position i (i - 1 if
\* there is no digit at i): what \d+ consumes before a character that is
\* not a digit
RECURSIVE DigitRunEnd(_, _)
DigitRunEnd(s, i) ==
    IF i <= Len(s) /\ s[i] \in Digits THEN DigitRunEnd(s, i + 1) ELSE i - 1

\* end of the longest text of digit groups joined by dots that starts at
\* position i (i - 1 if there is none)
RECURSIVE DotGroupsEnd(_, _)
DotGroupsEnd(s, i) ==
    LET e == DigitRunEnd(s, i)
    IN  IF e < i THEN i - 1
        ELSE IF At(s, e + 1, <<".">>) /\ DigitRunEnd(s, e + 2) >= e + 2
             THEN DotGroupsEnd(s, e + 2)
             ELSE e

\* parseScriptVersion with the pattern ^V(\d+(\.\d+)*)__(.+)\.sql$ : any
\* number of groups in the version
parseScriptVersionAnyGroups(filename) ==
    LET n == Len(filename)
        e == DotGroupsEnd(filename, 2)
        matched ==
            /\ At(filename, 1, <<"V">>)
            /\ e >= 2
            /\ At(filename, e + 1, <<"_", "_">>)
            /\ e + 3 <= n - 4
            /\ \A i \in (e + 3)..(n - 4) : filename[i] # "\n"
            /\ At(filename, n - 3, <<".", "s", "q", "l">>)
    IN  IF ~matched THEN [err |-> TRUE, version |-> <<>>, description |-> <<>>]
        ELSE [err |-> FALSE,
              version |-> SubSeq(filename, 2, e),
              description |-> SubSeq(filename, e + 3, n - 4)]

\* The match of ^V(\d+\.\d+\.\d+)__(.+)\.sql$ against filename.
\* Each \d+ is followed by a character that is not a digit, so a group ends
\* where its run of digits ends; "." of the pattern does not match a
\* newline, "$" only the end of the text.
parseScriptVersion(filename) ==
    LET n  == Len(filename)
        e1 == DigitRunEnd(filename, 2)
        e2 == DigitRunEnd(filename, e1 + 2)
        e3 == DigitRunEnd(filename, e2 + 2)
        matched ==
            /\ At(filename, 1, <<"V">>)
            /\ e1 >= 2
            /\ At(filename, e1 + 1, <<".">>)
            /\ e2 >= e1 + 2
            /\ At(filename, e2 + 1, <<".">>)
            /\ e3 >= e2 + 2
            /\ At(filename, e3 + 1, <<"_", "_">>)
            /\ e3 + 3 <= n - 4
            /\ \A i \in (e3 + 3)..(n - 4) : filename[i] # "\n"
            /\ At(filename, n - 3, <<".", "s", "q", "l">>)
    IN  IF ~matched THEN [err |-> TRUE, version |-> <<>>, description |-> <<>>]
        ELSE [err |-> FALSE,
              version |-> SubSeq(filename, 2, e3),
              description |-> SubSeq(filename, e3 + 3, n - 4)]

extractVersionFromFile(file) ==
    IF parseScriptVersion(file).err THEN <<>> ELSE parseScriptVersion(file).version

\* filepath.Glob(dir/"V*.sql") on a base name: "*" matches any run of
\* characters of a name
GlobMatch(name) ==
    /\ Len(name) >= 5
    /\ At(name, 1, <<"V">>)
    /\ At(name, Len(name) - 3, <<".", "s", "q", "l">>)

\* ------------------------------------------------------------------------
\* Statement splitter
\* ------------------------------------------------------------------------

\* regexp `--.*$` replaced by "": without the multi-line flag "$" is the end
\* of the text and "." stops at a newline, so the leftmost "--" that has no
\* newline after it is cut off together with everything behind it.
StripLineComment(content) ==
    LET starts == {i \in 1..Len(content) :
                      /\ At(content, i, <<"-", "-">>)
                      /\ \A j \in (i + 2)..Len(content) : content[j] # "\n"}
    IN  IF starts = {} THEN content
        ELSE LET i == CHOOSE k \in starts : \A j \in starts : k <= j
             IN  SubSeq(content, 1, i - 1)

\* regexp `/\*[\s\S]*?\*/` replaced by "": leftmost match, shortest body,
\* then on with the rest of the text
RECURSIVE StripBlockComments(_)
StripBlockComments(content) ==
    LET closes(i) == {j \in (i + 2)..Len(content) : At(content, j, <<"*", "/">>)}
        starts == {i \in 1..Len(content) :
                      At(content, i, <<"/", "*">>) /\ closes(i) # {}}
    IN  IF starts = {} THEN content
        ELSE LET i == CHOOSE k \in starts : \A j \in starts : k <= j
                 c == CHOOSE k \in closes(i) : \A j \in closes(i) : k <= j
             IN  SubSeq(content, 1, i - 1) \o StripBlockComments(Tail_(content, c + 2))

\* the scanning loop without the test for an empty statement
ScanCharKeepEmpty(st, char) ==
    CASE st.escaped ->
            [st EXCEPT !.cur = Append(@, char), !.escaped = FALSE]
      [] ~st.escaped /\ char = "\\" ->
            [st EXCEPT !.cur = Append(@, char), !.escaped = TRUE]
      [] ~st.escaped /\ char # "\\" /\ st.inString /\ char = st.stringChar ->
            [st EXCEPT !.cur = Append(@, char), !.inString = FALSE]
      [] ~st.escaped /\ char # "\\" /\ ~st.inString /\ char \in {"'", "\""} ->
            [st EXCEPT !.cur = Append(@, char), !.inString = TRUE,
                       !.stringChar = char]
      [] ~st.escaped /\ char # "\\" /\ ~st.inString /\ char = ";" ->
            [st EXCEPT !.cur = <<>>,
                       !.statements = Append(@, TrimSpace(st.cur))]
      [] OTHER ->
            [st EXCEPT !.cur = Append(@, char)]

\* the scanning loop without the escape marker: a backslash is a character
\* like any other
ScanCharNoEscape(st, char) ==
    CASE st.inString /\ char = st.stringChar ->
            [st EXCEPT !.cur = Append(@, char), !.inString = FALSE]
      [] ~st.inString /\ char \in {"'", "\""} ->
            [st EXCEPT !.cur = Append(@, char), !.inString = TRUE,
                       !.stringChar = char]
      [] ~st.inString /\ char = ";" ->
            [st EXCEPT !.cur = <<>>,
                       !.statements = IF TrimSpace(st.cur) # <<>>
                                      THEN Append(@, TrimSpace(st.cur)) ELSE @]
      [] OTHER ->
            [st EXCEPT !.cur = Append(@, char)]

\* one iteration of the scanning loop of splitSQLStatements
ScanChar(st, char) ==
    CASE st.escaped ->
            [st EXCEPT !.cur = Append(@, char), !.escaped = FALSE]
      [] ~st.escaped /\ char = "\\" ->
            [st EXCEPT !.cur = Append(@, char), !.escaped = TRUE]
      [] ~st.escaped /\ char # "\\" /\ st.inString /\ char = st.stringChar ->
            [st EXCEPT !.cur = Append(@, char), !.inString = FALSE]
      [] ~st.escaped /\ char # "\\" /\ ~st.inString /\ char \in {"'", "\""} ->
            [st EXCEPT !.cur = Append(@, char), !.inString = TRUE,
                       !.stringChar = char]
      [] ~st.escaped /\ char # "\\" /\ ~st.inString /\ char = ";" ->
            [st EXCEPT !.cur = <<>>,
                       !.statements = IF TrimSpace(st.cur) # <<>>
                                      THEN Append(@, TrimSpace(st.cur)) ELSE @]
      [] OTHER ->
            [st EXCEPT !.cur = Append(@, char)]

RECURSIVE ScanFrom(_, _, _)
ScanFrom(st, content, i) ==
    IF i > Len(content) THEN st
    ELSE ScanFrom(ScanChar(st, content[i]), content, i + 1)

splitSQLStatements(content) ==
    LET stripped == StripBlockComments(StripLineComment(content))
        st0 == [statements |-> <<>>, cur |-> <<>>, inString |-> FALSE,
                stringChar |-> "", escaped |-> FALSE]
        st  == ScanFrom(st0, stripped, 1)
    IN  IF TrimSpace(st.cur) # <<>>
        THEN Append(st.statements, TrimSpace(st.cur))
        ELSE st.statements

\* ------------------------------------------------------------------------
\* The script directory
\* ------------------------------------------------------------------------

Ext == <<".", "s", "q", "l">>

\* V1.2.0__u.sql (two statements) and V1.10.0__t.sql : the order of the
\* versions is not the order of the names
FTwo == <<"V", "1", ".", "2", ".", "0", "_", "_", "u">> \o Ext
FTen == <<"V", "1", ".", "1", "0", ".", "0", "_", "_", "t">> \o Ext
\* V0.0.0__z.sql : the lowest version there is
FZero == <<"V", "0", ".", "0", ".", "0", "_", "_", "z">> \o Ext
\* V1.2.0__d.sql : claims the version of FTwo
FDup == <<"V", "1", ".", "2", ".", "0", "_", "_", "d">> \o Ext
\* Vbad.sql : listed by the glob, not a valid script name
FBad == <<"V", "b", "a", "d">> \o Ext
\* init.sql : no version prefix
FNoPrefix == <<"i", "n", "i", "t">> \o Ext

FilePool == {FTwo, FTen, FZero, FDup, FBad, FNoPrefix}

\* content of each file as first written
Original(f) ==
    CASE f = FTwo      -> <<"u", ";", "\n", "w", ";">>
      [] f = FTen      -> <<"t", ";">>
      [] f = FZero     -> <<"z", ";">>
      [] f = FDup      -> <<"d", ";">>
      [] f = FBad      -> <<"x", ";">>
      [] OTHER         -> <<"y", ";">>

\* content of each file after somebody edited it: one more statement
Edited(f) == Original(f) \o <<"\n", Original(f)[1], Original(f)[1], ";">>

Range(seq) == {seq[i] : i \in 1..Len(seq)}

AllStatements ==
    UNION {Range(splitSQLStatements(Original(f))) \cup
           Range(splitSQLStatements(Edited(f))) : f \in FilePool}

\* md5.Sum rendered as hex: a digest that identifies the content
Checksum(content) == <<"md5", content>>

\* ------------------------------------------------------------------------
\* State
\* ------------------------------------------------------------------------

VARIABLES
    scripts,          \* the script directory: file name -> content
    tableExists,      \* is sys_db_version there
    ledger,           \* committed rows of sys_db_version
    effects,          \* database: statement -> number of times it took durable effect
    pc,               \* per invocation: position in Migrate
    executedVersions, \* per invocation: version -> row, as loaded at the start
    files,            \* per invocation: the sorted file list
    idx,              \* per invocation: index of the file being processed
    cur,              \* per invocation: the script being executed
    k,                \* per invocation: index of the next statement
    tx,               \* per invocation: the open transaction
    result,           \* per invocation: "none", "ok" or "error"
    errKind,          \* per invocation: which step failed
    runs,             \* history: invocations started so far
    tampers,          \* history: edits made so far
    runLog,           \* history, per invocation: <<file, statement>> executed in this run
    skipLog,          \* history, per invocation: files skipped as already executed
    ledger0,          \* history, per invocation: ledger when the run started
    effects0,         \* history, per invocation: effects when the current script started
    prevResult,       \* history, per invocation: result of the run before
    table0,           \* history, per invocation: tableExists when the run started
    scripts0,         \* history, per invocation: the directory when the run started
    parseIn,          \* a file name handed to parseScriptVersion
    parseOut,         \* what parseScriptVersion returned for it
    verA,             \* three versions handed to compareVersions, each as the
    verB,             \*   tuple of its components
    verC,
    cmpOut,           \* what compareVersions returned for the pairs of them
    splitIn,          \* a script text handed to splitSQLStatements
    splitOut,         \* what splitSQLStatements returned for it
    createIn,         \* a driver name and what CREATE DATABASE answered
    createOut         \* what createDatabase did with it

dbVars   == <<tableExists, ledger, effects>>
runVars  == <<pc, executedVersions, files, idx, cur, k, tx, result, errKind>>
histVars == <<runs, tampers, runLog, skipLog, ledger0, effects0, prevResult, table0,
             scripts0>>
cmpVars  == <<verA, verB, verC, cmpOut>>
splVars  == <<splitIn, splitOut>>
crtVars  == <<createIn, createOut>>
fnVars   == <<parseIn, parseOut, cmpVars, splVars, crtVars>>
vars     == <<scripts, dbVars, runVars, histVars, fnVars>>

\* the callers of Migrate: one in Spec, two in SpecConcurrent
Procs == DOMAIN pc

\* the transaction of the script being applied, and how often this run has
\* called Begin with success, tx.Rollback and tx.Commit
NoTx == [open |-> FALSE, rows |-> {}, opened |-> 0, rollbacks |-> 0, commits |-> 0]
\* s.db.Begin() without error
Begun(t) == [t EXCEPT !.open = TRUE, !.rows = {}, !.opened = @ + 1]
\* tx.Rollback()
RolledBack(t) == [t EXCEPT !.open = FALSE, !.rows = {}, !.rollbacks = @ + 1]
\* tx.Commit(), with or without error
Committed(t) == [t EXCEPT !.open = FALSE, !.rows = {}, !.commits = @ + 1]
NoScript == [file |-> <<>>, version |-> <<>>, description |-> <<>>,
             content |-> <<>>, statements |-> <<>>]

\* failures of the environment (database, file system) and failures the
\* code decides on its own
EnvErrors == {"createTable", "load", "glob", "read", "begin", "exec", "record", "commit"}
OwnErrors == {"parse", "unique"}

Directories ==
    {D \in SUBSET FilePool : Cardinality(D) <= MaxFiles}

NoResult == [err |-> FALSE, version |-> <<"?">>, description |-> <<"?">>]
NoCompare == [ab |-> 2, ba |-> 2, bc |-> 2, ac |-> 2]
NoSplit == <<<<"?">>>>
NoCreate == [panic |-> FALSE, err |-> <<"?">>]
\* the nil error
NoError == <<"<nil>">>

\* nothing has been handed to the functions that are checked on their own
CompareIdle == verA = <<>> /\ verB = <<>> /\ verC = <<>> /\ cmpOut = NoCompare
SplitIdle == splitIn = <<>> /\ splitOut = NoSplit
ParseIdle == parseIn = <<>> /\ parseOut = NoResult
CreateIdle == createIn = <<>> /\ createOut = NoCreate

\* no invocation of Migrate has started; callers are those who will call
\* Migrate, stmts the statements the scripts of the directory can execute,
\* rows what sys_db_version holds
EngineIdleWith(callers, stmts, rows) ==
    /\ ledger = rows
    /\ effects = [s \in stmts |-> 0]
    /\ pc = [p \in callers |-> "idle"]
    /\ executedVersions = [p \in callers |-> <<>>]
    /\ files = [p \in callers |-> <<>>]
    /\ idx = [p \in callers |-> 0]
    /\ cur = [p \in callers |-> NoScript]
    /\ k = [p \in callers |-> 0]
    /\ tx = [p \in callers |-> NoTx]
    /\ result = [p \in callers |-> "none"]
    /\ errKind = [p \in callers |-> "none"]
    /\ runs = 0
    /\ tampers = 0
    /\ runLog = [p \in callers |-> <<>>]
    /\ skipLog = [p \in callers |-> <<>>]
    /\ ledger0 = [p \in callers |-> {}]
    /\ effects0 = [p \in callers |-> [s \in stmts |-> 0]]
    /\ prevResult = [p \in callers |-> "none"]
    /\ table0 = [p \in callers |-> FALSE]
    /\ scripts0 = [p \in callers |-> <<>>]

\* the same with an empty database
EngineIdleOver(callers, stmts) == EngineIdleWith(callers, stmts, {})

EngineIdle == EngineIdleOver({1}, AllStatements)

\* the engine where a function is checked on its own: no directory, no
\* statements
EngineUnused ==
    /\ scripts = <<>>
    /\ tableExists = FALSE
    /\ EngineIdleOver({1}, {})

Init ==
    /\ scripts \in {[f \in D |-> Original(f)] : D \in Directories}
    /\ tableExists = FALSE
    /\ EngineIdle
    /\ ParseIdle
    /\ CompareIdle
    /\ SplitIdle
    /\ CreateIdle

\* ------------------------------------------------------------------------
\* Migrate
\* ------------------------------------------------------------------------

\* return fmt.Errorf(...) from Migrate
Fail(p, kind) ==
    /\ pc' = [pc EXCEPT ![p] = "done"]
    /\ result' = [result EXCEPT ![p] = "error"]
    /\ errKind' = [errKind EXCEPT ![p] = kind]

\* Migrate is called
StartMigrate(p) ==
    /\ pc[p] \in {"idle", "done"}
    /\ runs < MaxRuns
    /\ pc' = [pc EXCEPT ![p] = "ensureTable"]
    /\ executedVersions' = [executedVersions EXCEPT ![p] = <<>>]
    /\ files' = [files EXCEPT ![p] = <<>>]
    /\ idx' = [idx EXCEPT ![p] = 0]
    /\ cur' = [cur EXCEPT ![p] = NoScript]
    /\ k' = [k EXCEPT ![p] = 0]
    /\ tx' = [tx EXCEPT ![p] = NoTx]
    /\ result' = [result EXCEPT ![p] = "none"]
    /\ errKind' = [errKind EXCEPT ![p] = "none"]
    /\ runs' = runs + 1
    /\ runLog' = [runLog EXCEPT ![p] = <<>>]
    /\ skipLog' = [skipLog EXCEPT ![p] = <<>>]
    /\ ledger0' = [ledger0 EXCEPT ![p] = ledger]
    /\ effects0' = [effects0 EXCEPT ![p] = effects]
    /\ prevResult' = [prevResult EXCEPT ![p] = result[p]]
    /\ table0' = [table0 EXCEPT ![p] = tableExists]
    /\ scripts0' = [scripts0 EXCEPT ![p] = scripts]
    /\ UNCHANGED <<fnVars, scripts, dbVars, tampers>>

\* isVersionTableExists reports the table: nothing to create
VersionTablePresent(p) ==
    /\ pc[p] = "ensureTable"
    /\ tableExists
    /\ pc' = [pc EXCEPT ![p] = "load"]
    /\ UNCHANGED <<fnVars, scripts, dbVars, executedVersions, files, idx, cur, k, tx,
                   result, errKind, histVars>>

\* createVersionTable succeeds
CreateVersionTable(p) ==
    /\ pc[p] = "ensureTable"
    /\ ~tableExists
    /\ tableExists' = TRUE
    /\ pc' = [pc EXCEPT ![p] = "load"]
    /\ UNCHANGED <<fnVars, scripts, ledger, effects, executedVersions, files, idx, cur,
                   k, tx, result, errKind, histVars>>

\* a failure of createVersionTable that Migrate passes over
CreateVersionTableFailIgnored(p) ==
    /\ pc[p] = "ensureTable"
    /\ ~tableExists
    /\ pc' = [pc EXCEPT ![p] = "load"]
    /\ UNCHANGED <<fnVars, scripts, dbVars, executedVersions, files, idx, cur, k, tx,
                   result, errKind, histVars>>

\* createVersionTable fails
CreateVersionTableFail(p) ==
    /\ pc[p] = "ensureTable"
    /\ ~tableExists
    /\ Fail(p, "createTable")
    /\ UNCHANGED <<fnVars, scripts, dbVars, executedVersions, files, idx, cur, k, tx,
                   histVars>>

\* getExecutedVersions with the filter turned around: success = false
ExecutedMapOfFailures(rows) ==
    LET bad == {r \in rows : ~r.success}
    IN  [v \in {r.version : r \in bad} |->
            CHOOSE r \in bad : r.version = v]

\* getExecutedVersions without the filter on success
ExecutedMapOfAllRows(rows) ==
    [v \in {r.version : r \in rows} |->
        CHOOSE r \in rows : r.version = v]

\* getExecutedVersions: the rows with success = true, keyed by version
ExecutedMap(rows) ==
    LET good == {r \in rows : r.success}
    IN  [v \in {r.version : r \in good} |->
            CHOOSE r \in good : r.version = v]

GetExecutedVersions(p) ==
    /\ pc[p] = "load"
    /\ executedVersions' = [executedVersions EXCEPT ![p] = ExecutedMap(ledger)]
    /\ pc' = [pc EXCEPT ![p] = "glob"]
    /\ UNCHANGED <<fnVars, scripts, dbVars, files, idx, cur, k, tx, result, errKind,
                   histVars>>

GetExecutedVersionsFail(p) ==
    /\ pc[p] = "load"
    /\ Fail(p, "load")
    /\ UNCHANGED <<fnVars, scripts, dbVars, executedVersions, files, idx, cur, k, tx,
                   histVars>>

\* the less function with the comparison turned around: highest version first
LessDescending(f, g) ==
    compareVersions(extractVersionFromFile(f), extractVersionFromFile(g)) > 0

\* the less function handed to sort.Slice
Less(f, g) == compareVersions(extractVersionFromFile(f), extractVersionFromFile(g)) < 0

\* sort.Slice gives no guarantee for elements that compare equal: every
\* arrangement of the listed files in which no file is less than one before it
SortedOrders(S) ==
    {o \in [1..Cardinality(S) -> S] :
        /\ \A i, j \in 1..Cardinality(S) : i # j => o[i] # o[j]
        /\ \A i, j \in 1..Cardinality(S) : i < j => ~Less(o[j], o[i])}

\* filepath.Glob and sort.Slice
DiscoverScripts(p) ==
    /\ pc[p] = "glob"
    /\ \E o \in SortedOrders({f \in DOMAIN scripts : GlobMatch(f)}) :
            files' = [files EXCEPT ![p] = o]
    /\ idx' = [idx EXCEPT ![p] = 1]
    /\ pc' = [pc EXCEPT ![p] = "process"]
    /\ UNCHANGED <<fnVars, scripts, dbVars, executedVersions, cur, k, tx, result,
                   errKind, histVars>>

\* filepath.Glob reports a malformed pattern (the directory path is part of it)
DiscoverScriptsFail(p) ==
    /\ pc[p] = "glob"
    /\ Fail(p, "glob")
    /\ UNCHANGED <<fnVars, scripts, dbVars, executedVersions, files, idx, cur, k, tx,
                   histVars>>

AtFile(p) == pc[p] = "process" /\ idx[p] <= Len(files[p])
File(p) == files[p][idx[p]]

\* processSQLFile that passes over a name it cannot parse
ParseFailSkip(p) ==
    /\ AtFile(p)
    /\ parseScriptVersion(File(p)).err
    /\ idx' = [idx EXCEPT ![p] = @ + 1]
    /\ UNCHANGED <<fnVars, scripts, dbVars, pc, executedVersions, files, cur, k,
                   tx, result, errKind, histVars>>

\* processSQLFile: the name does not parse
ParseFail(p) ==
    /\ AtFile(p)
    /\ parseScriptVersion(File(p)).err
    /\ Fail(p, "parse")
    /\ UNCHANGED <<fnVars, scripts, dbVars, executedVersions, files, idx, cur, k, tx,
                   histVars>>

AlreadyExecuted(p) ==
    /\ AtFile(p)
    /\ ~parseScriptVersion(File(p)).err
    /\ parseScriptVersion(File(p)).version \in DOMAIN executedVersions[p]

\* validateChecksum that returns an error when the digests differ
SkipExecutedStrict(p) ==
    /\ AlreadyExecuted(p)
    /\ IF Checksum(scripts[File(p)]) =
            executedVersions[p][parseScriptVersion(File(p)).version].checksum
       THEN /\ idx' = [idx EXCEPT ![p] = @ + 1]
            /\ UNCHANGED <<pc, result, errKind>>
       ELSE /\ Fail(p, "checksum")
            /\ UNCHANGED idx
    /\ skipLog' = [skipLog EXCEPT ![p] =
          Append(@, [file |-> File(p),
                     matches |-> Checksum(scripts[File(p)]) =
                        executedVersions[p][parseScriptVersion(File(p)).version].checksum])]
    /\ UNCHANGED <<fnVars, scripts, dbVars, executedVersions, files, cur, k, tx,
                   runs, tampers, runLog, ledger0, effects0, prevResult, table0,
                   scripts0>>

\* processSQLFile: version in the map; validateChecksum reads the file, logs a
\* mismatch and returns nil either way
SkipExecuted(p) ==
    /\ AlreadyExecuted(p)
    /\ skipLog' = [skipLog EXCEPT ![p] =
          Append(@, [file |-> File(p),
                     matches |-> Checksum(scripts[File(p)]) =
                        executedVersions[p][parseScriptVersion(File(p)).version].checksum])]
    /\ idx' = [idx EXCEPT ![p] = @ + 1]
    /\ UNCHANGED <<fnVars, scripts, dbVars, pc, executedVersions, files, cur, k, tx,
                   result, errKind, runs, tampers, runLog, ledger0, effects0,
                   prevResult, table0, scripts0>>

\* validateChecksum cannot read the file
ValidateChecksumReadFail(p) ==
    /\ AlreadyExecuted(p)
    /\ Fail(p, "read")
    /\ UNCHANGED <<fnVars, scripts, dbVars, executedVersions, files, idx, cur, k, tx,
                   histVars>>

NotExecuted(p) ==
    /\ AtFile(p)
    /\ ~parseScriptVersion(File(p)).err
    /\ parseScriptVersion(File(p)).version \notin DOMAIN executedVersions[p]

\* executeScriptFile that goes on to the next file when it cannot read one
ReadFailContinue(p) ==
    /\ NotExecuted(p)
    /\ idx' = [idx EXCEPT ![p] = @ + 1]
    /\ UNCHANGED <<fnVars, scripts, dbVars, pc, executedVersions, files, cur, k,
                   tx, result, errKind, histVars>>

\* executeScriptFile cannot read the file
ReadFail(p) ==
    /\ NotExecuted(p)
    /\ Fail(p, "read")
    /\ UNCHANGED <<fnVars, scripts, dbVars, executedVersions, files, idx, cur, k, tx,
                   histVars>>

\* s.db.Begin() fails
BeginFail(p) ==
    /\ NotExecuted(p)
    /\ Fail(p, "begin")
    /\ UNCHANGED <<fnVars, scripts, dbVars, executedVersions, files, idx, cur, k, tx,
                   histVars>>

\* executeScriptFile that refuses a script when a higher version is in the
\* applied map
BeginScriptInOrder(p) ==
    /\ NotExecuted(p)
    /\ IF \E v \in DOMAIN executedVersions[p] :
             compareVersions(parseScriptVersion(File(p)).version, v) < 0
       THEN /\ Fail(p, "outOfOrder")
            /\ UNCHANGED <<cur, tx, k, effects0>>
       ELSE /\ cur' = [cur EXCEPT ![p] =
                  [file |-> File(p),
                   version |-> parseScriptVersion(File(p)).version,
                   description |-> parseScriptVersion(File(p)).description,
                   content |-> scripts[File(p)],
                   statements |-> splitSQLStatements(scripts[File(p)])]]
            /\ tx' = [tx EXCEPT ![p] = Begun(@)]
            /\ k' = [k EXCEPT ![p] = 1]
            /\ pc' = [pc EXCEPT ![p] = "exec"]
            /\ effects0' = [effects0 EXCEPT ![p] = effects]
            /\ UNCHANGED <<result, errKind>>
    /\ UNCHANGED <<fnVars, scripts, dbVars, executedVersions, files, idx,
                   runs, tampers, runLog, skipLog, ledger0, prevResult, table0, scripts0>>

\* executeScriptFile: file read, transaction begun, content split
BeginScript(p) ==
    /\ NotExecuted(p)
    /\ cur' = [cur EXCEPT ![p] =
          [file |-> File(p),
           version |-> parseScriptVersion(File(p)).version,
           description |-> parseScriptVersion(File(p)).description,
           content |-> scripts[File(p)],
           statements |-> splitSQLStatements(scripts[File(p)])]]
    /\ tx' = [tx EXCEPT ![p] = Begun(@)]
    /\ k' = [k EXCEPT ![p] = 1]
    /\ pc' = [pc EXCEPT ![p] = "exec"]
    /\ effects0' = [effects0 EXCEPT ![p] = effects]
    /\ UNCHANGED <<fnVars, scripts, dbVars, executedVersions, files, idx, result,
                   errKind, runs, tampers, runLog, skipLog, ledger0, prevResult, table0, scripts0>>

AtStatement(p) == pc[p] = "exec" /\ k[p] <= Len(cur[p].statements)

\* executeSQLStatements that runs a statement only while no other caller of
\* Migrate has a transaction open
ExecStatementLocked(p) ==
    /\ AtStatement(p)
    /\ \A q \in Procs \ {p} : ~tx[q].open
    /\ effects' = [effects EXCEPT ![cur[p].statements[k[p]]] = @ + 1]
    /\ runLog' = [runLog EXCEPT ![p] =
                     Append(@, <<cur[p].file, cur[p].statements[k[p]]>>)]
    /\ k' = [k EXCEPT ![p] = @ + 1]
    /\ UNCHANGED <<fnVars, scripts, tableExists, ledger, pc, executedVersions, files,
                   idx, cur, tx, result, errKind, runs, tampers, skipLog,
                   ledger0, effects0, prevResult, table0, scripts0>>

\* executeSQLStatements: s.db.Exec(stmt) succeeds.  The statement runs on
\* s.db, the handle of the service, not on tx: it is outside the transaction
\* and takes effect at once.
ExecStatement(p) ==
    /\ AtStatement(p)
    /\ LET stmt == cur[p].statements[k[p]]
       IN  IF TrimSpace(stmt) = <<>>
           THEN UNCHANGED <<fnVars, effects, runLog>>
           ELSE /\ effects' = [effects EXCEPT ![stmt] = @ + 1]
                /\ runLog' = [runLog EXCEPT ![p] = Append(@, <<cur[p].file, stmt>>)]
    /\ k' = [k EXCEPT ![p] = @ + 1]
    /\ UNCHANGED <<fnVars, scripts, tableExists, ledger, pc, executedVersions, files,
                   idx, cur, tx, result, errKind, runs, tampers, skipLog,
                   ledger0, effects0, prevResult, table0, scripts0>>

\* executeSQLStatements: s.db.Exec(stmt) fails; tx.Rollback()
ExecStatementFail(p) ==
    /\ AtStatement(p)
    /\ TrimSpace(cur[p].statements[k[p]]) # <<>>
    /\ tx' = [tx EXCEPT ![p] = RolledBack(@)]
    /\ Fail(p, "exec")
    /\ UNCHANGED <<fnVars, scripts, dbVars, executedVersions, files, idx, cur, k,
                   histVars>>

\* a value for the primary key that no row has, committed or pending
FreshId ==
    LET rows == ledger \cup UNION {tx[q].rows : q \in Procs}
    IN  CHOOSE n \in 1..(Cardinality(rows) + 1) : \A r \in rows : r.id # n

Migration(p) ==
    [id |-> FreshId,
     version |-> cur[p].version,
     description |-> cur[p].description,
     script |-> cur[p].file,
     checksum |-> Checksum(cur[p].content),
     installedBy |-> "system",
     success |-> TRUE]

AtRecord(p) == pc[p] = "exec" /\ k[p] > Len(cur[p].statements)

\* the unique index on sys_db_version.version
VersionTaken(v) == \E r \in ledger : r.version = v

\* another transaction holds an uncommitted row of the version: the insert
\* waits for that transaction to end
VersionPending(p, v) ==
    \E q \in Procs \ {p} : \E r \in tx[q].rows : r.version = v

\* tx.Create(migration) with no unique index on the version column
RecordVersionNoIndex(p) ==
    /\ AtRecord(p)
    /\ tx' = [tx EXCEPT ![p].rows = @ \cup {Migration(p)}]
    /\ pc' = [pc EXCEPT ![p] = "commit"]
    /\ UNCHANGED <<fnVars, scripts, dbVars, executedVersions, files, idx, cur, k,
                   result, errKind, histVars>>

\* tx.Create(migration) succeeds: the row is pending in the transaction
RecordVersion(p) ==
    /\ AtRecord(p)
    /\ ~VersionTaken(cur[p].version)
    /\ ~VersionPending(p, cur[p].version)
    /\ tx' = [tx EXCEPT ![p].rows = @ \cup {Migration(p)}]
    /\ pc' = [pc EXCEPT ![p] = "commit"]
    /\ UNCHANGED <<fnVars, scripts, dbVars, executedVersions, files, idx, cur, k,
                   result, errKind, histVars>>

\* tx.Create(migration) is refused by the unique index; tx.Rollback()
RecordVersionDuplicate(p) ==
    /\ AtRecord(p)
    /\ VersionTaken(cur[p].version)
    /\ tx' = [tx EXCEPT ![p] = RolledBack(@)]
    /\ Fail(p, "unique")
    /\ UNCHANGED <<fnVars, scripts, dbVars, executedVersions, files, idx, cur, k,
                   histVars>>

\* tx.Create(migration) fails for another reason; tx.Rollback()
RecordVersionFail(p) ==
    /\ AtRecord(p)
    /\ tx' = [tx EXCEPT ![p] = RolledBack(@)]
    /\ Fail(p, "record")
    /\ UNCHANGED <<fnVars, scripts, dbVars, executedVersions, files, idx, cur, k,
                   histVars>>

\* tx.Commit() that leaves only the rows of this transaction in the table
CommitReplacing(p) ==
    /\ pc[p] = "commit"
    /\ ledger' = tx[p].rows
    /\ tx' = [tx EXCEPT ![p] = Committed(@)]
    /\ idx' = [idx EXCEPT ![p] = @ + 1]
    /\ pc' = [pc EXCEPT ![p] = "process"]
    /\ UNCHANGED <<fnVars, scripts, tableExists, effects, executedVersions, files, cur,
                   k, result, errKind, histVars>>

\* tx.Commit() after which the applied map of the run is brought up to date
CommitRefreshingMap(p) ==
    /\ pc[p] = "commit"
    /\ ledger' = ledger \cup tx[p].rows
    /\ executedVersions' = [executedVersions EXCEPT ![p] =
                               ExecutedMap(ledger \cup tx[p].rows)]
    /\ tx' = [tx EXCEPT ![p] = Committed(@)]
    /\ idx' = [idx EXCEPT ![p] = @ + 1]
    /\ pc' = [pc EXCEPT ![p] = "process"]
    /\ UNCHANGED <<fnVars, scripts, tableExists, effects, files, cur, k, result,
                   errKind, histVars>>

\* tx.Commit() succeeds: the pending row becomes durable
Commit(p) ==
    /\ pc[p] = "commit"
    /\ ledger' = ledger \cup tx[p].rows
    /\ tx' = [tx EXCEPT ![p] = Committed(@)]
    /\ idx' = [idx EXCEPT ![p] = @ + 1]
    /\ pc' = [pc EXCEPT ![p] = "process"]
    /\ UNCHANGED <<fnVars, scripts, tableExists, effects, executedVersions, files, cur,
                   k, result, errKind, histVars>>

\* a failing tx.Commit() after which Migrate goes on to the next file
CommitFailContinue(p) ==
    /\ pc[p] = "commit"
    /\ tx' = [tx EXCEPT ![p] = Committed(@)]
    /\ idx' = [idx EXCEPT ![p] = @ + 1]
    /\ pc' = [pc EXCEPT ![p] = "process"]
    /\ UNCHANGED <<fnVars, scripts, dbVars, executedVersions, files, cur, k, result,
                   errKind, histVars>>

\* executeScriptFile that rolls back after a commit that failed
CommitFailRollingBack(p) ==
    /\ pc[p] = "commit"
    /\ tx' = [tx EXCEPT ![p] = RolledBack(Committed(@))]
    /\ Fail(p, "commit")
    /\ UNCHANGED <<fnVars, scripts, dbVars, executedVersions, files, idx, cur, k,
                   histVars>>

\* tx.Commit() fails: the pending row is lost
CommitFail(p) ==
    /\ pc[p] = "commit"
    /\ tx' = [tx EXCEPT ![p] = Committed(@)]
    /\ Fail(p, "commit")
    /\ UNCHANGED <<fnVars, scripts, dbVars, executedVersions, files, idx, cur, k,
                   histVars>>

\* Migrate that returns nil before the loop over the files has ended
FinishAnywhere(p) ==
    /\ pc[p] = "process"
    /\ pc' = [pc EXCEPT ![p] = "done"]
    /\ result' = [result EXCEPT ![p] = "ok"]
    /\ UNCHANGED <<fnVars, scripts, dbVars, executedVersions, files, idx, cur, k, tx,
                   errKind, histVars>>

\* every file processed: Migrate returns nil
Finish(p) ==
    /\ pc[p] = "process"
    /\ idx[p] > Len(files[p])
    /\ pc' = [pc EXCEPT ![p] = "done"]
    /\ result' = [result EXCEPT ![p] = "ok"]
    /\ UNCHANGED <<fnVars, scripts, dbVars, executedVersions, files, idx, cur, k, tx,
                   errKind, histVars>>

\* somebody edits a script (or undoes the edit) after a run of Migrate has
\* returned, while no Migrate is running
Tamper ==
    /\ \A p \in Procs : pc[p] = "done"
    /\ tampers < MaxTamper
    /\ \E f \in DOMAIN scripts :
          scripts' = [scripts EXCEPT ![f] =
                         IF @ = Original(f) THEN Edited(f) ELSE Original(f)]
    /\ tampers' = tampers + 1
    /\ UNCHANGED <<fnVars, dbVars, runVars, runs, runLog, skipLog, ledger0, effects0,
                   prevResult, table0, scripts0>>

Next ==
    \/ \E p \in Procs :
          \/ StartMigrate(p)
          \/ VersionTablePresent(p)
          \/ CreateVersionTable(p)
          \/ CreateVersionTableFail(p)
          \/ GetExecutedVersions(p)
          \/ GetExecutedVersionsFail(p)
          \/ DiscoverScripts(p)
          \/ DiscoverScriptsFail(p)
          \/ ParseFail(p)
          \/ SkipExecuted(p)
          \/ ValidateChecksumReadFail(p)
          \/ ReadFail(p)
          \/ BeginFail(p)
          \/ BeginScript(p)
          \/ ExecStatement(p)
          \/ ExecStatementFail(p)
          \/ RecordVersion(p)
          \/ RecordVersionDuplicate(p)
          \/ RecordVersionFail(p)
          \/ Commit(p)
          \/ CommitFail(p)
          \/ Finish(p)
    \/ Tamper

Spec == Init /\ [][Next]_vars

\* ------------------------------------------------------------------------
\* Migrate on a ledger that holds a row with success = false, written by
\* something other than this engine
\* ------------------------------------------------------------------------

\* the row of an application of V1.2.0__u.sql that was recorded as failed
FailedRow ==
    [id |-> 1,
     version |-> <<"1", ".", "2", ".", "0">>,
     description |-> <<"u">>,
     script |-> FTwo,
     checksum |-> Checksum(Original(FTwo)),
     installedBy |-> "system",
     success |-> FALSE]

RetryDirectories == {{FTwo}, {FZero, FTwo}, {FTwo, FBad}}

InitRetry ==
    /\ scripts \in {[f \in D |-> Original(f)] : D \in RetryDirectories}
    /\ tableExists = TRUE
    /\ EngineIdleWith({1}, AllStatements, {FailedRow})
    /\ ParseIdle
    /\ CompareIdle
    /\ SplitIdle
    /\ CreateIdle

\* sys_db_version exists, so createVersionTable is never called
NextRetry ==
    \/ \E p \in Procs :
          \/ StartMigrate(p)
          \/ VersionTablePresent(p)
          \/ GetExecutedVersions(p)
          \/ GetExecutedVersionsFail(p)
          \/ DiscoverScripts(p)
          \/ DiscoverScriptsFail(p)
          \/ ParseFail(p)
          \/ SkipExecuted(p)
          \/ ValidateChecksumReadFail(p)
          \/ ReadFail(p)
          \/ BeginFail(p)
          \/ BeginScript(p)
          \/ ExecStatement(p)
          \/ ExecStatementFail(p)
          \/ RecordVersion(p)
          \/ RecordVersionDuplicate(p)
          \/ RecordVersionFail(p)
          \/ Commit(p)
          \/ CommitFail(p)
          \/ Finish(p)
    \/ Tamper

SpecRetry == InitRetry /\ [][NextRetry]_vars

\* ------------------------------------------------------------------------
\* Migrate on a directory that gets new scripts between the runs
\* ------------------------------------------------------------------------

GrowingPool == {FZero, FTwo, FTen}

GrowingDirectories == {D \in SUBSET GrowingPool : Cardinality(D) < MaxFiles}

InitGrowing ==
    /\ scripts \in {[f \in D |-> Original(f)] : D \in GrowingDirectories}
    /\ tableExists = FALSE
    /\ EngineIdle
    /\ ParseIdle
    /\ CompareIdle
    /\ SplitIdle
    /\ CreateIdle

\* somebody puts a new script into the directory after a run of Migrate has
\* returned, while no Migrate is running
AddScript ==
    /\ \A p \in Procs : pc[p] = "done"
    /\ Cardinality(DOMAIN scripts) < MaxFiles
    /\ \E f \in GrowingPool \ DOMAIN scripts :
          scripts' = [g \in DOMAIN scripts \cup {f} |->
                         IF g = f THEN Original(f) ELSE scripts[g]]
    /\ UNCHANGED <<fnVars, dbVars, runVars, histVars>>

\* every name of the pool is valid and no two have the same version
NextGrowing ==
    \/ \E p \in Procs :
          \/ StartMigrate(p)
          \/ VersionTablePresent(p)
          \/ CreateVersionTable(p)
          \/ CreateVersionTableFail(p)
          \/ GetExecutedVersions(p)
          \/ GetExecutedVersionsFail(p)
          \/ DiscoverScripts(p)
          \/ DiscoverScriptsFail(p)
          \/ SkipExecuted(p)
          \/ ValidateChecksumReadFail(p)
          \/ ReadFail(p)
          \/ BeginFail(p)
          \/ BeginScript(p)
          \/ ExecStatement(p)
          \/ ExecStatementFail(p)
          \/ RecordVersion(p)
          \/ RecordVersionFail(p)
          \/ Commit(p)
          \/ CommitFail(p)
          \/ Finish(p)
    \/ AddScript

SpecGrowing == InitGrowing /\ [][NextGrowing]_vars

\* ------------------------------------------------------------------------
\* Two callers of Migrate at the same time, same database, same directory
\* ------------------------------------------------------------------------

\* one script; two scripts of the same version; a script and a bad name
ConcurrentDirectories == {{FTwo}, {FTwo, FDup}, {FZero, FBad}}

InitConcurrent ==
    /\ scripts \in {[f \in D |-> Original(f)] : D \in ConcurrentDirectories}
    /\ tableExists = FALSE
    /\ EngineIdleOver({1, 2}, AllStatements)
    /\ ParseIdle
    /\ CompareIdle
    /\ SplitIdle
    /\ CreateIdle

NextConcurrent ==
    \E p \in Procs :
        \/ StartMigrate(p)
        \/ VersionTablePresent(p)
        \/ CreateVersionTable(p)
        \/ CreateVersionTableFail(p)
        \/ GetExecutedVersions(p)
        \/ GetExecutedVersionsFail(p)
        \/ DiscoverScripts(p)
        \/ DiscoverScriptsFail(p)
        \/ ParseFail(p)
        \/ SkipExecuted(p)
        \/ ValidateChecksumReadFail(p)
        \/ ReadFail(p)
        \/ BeginFail(p)
        \/ BeginScript(p)
        \/ ExecStatement(p)
        \/ ExecStatementFail(p)
        \/ RecordVersion(p)
        \/ RecordVersionDuplicate(p)
        \/ RecordVersionFail(p)
        \/ Commit(p)
        \/ CommitFail(p)
        \/ Finish(p)

SpecConcurrent == InitConcurrent /\ [][NextConcurrent]_vars

\* ------------------------------------------------------------------------
\* parseScriptVersion on its own: candidate file names put together from
\* pieces, valid and invalid
\* ------------------------------------------------------------------------

Prefixes == {<<"V">>, <<"v">>, <<>>}
Groups   == {<<"1">>, <<"2", "0">>, <<>>, <<"x">>}
Seps     == {<<"_", "_">>, <<"_">>}
Descs    == {<<"a">>, <<"_", "a">>, <<>>, <<"a", "\n">>}
Suffixes == {Ext, <<".", "s", "q">>}

RECURSIVE JoinDot(_)
JoinDot(gs) ==
    IF Len(gs) = 0 THEN <<>>
    ELSE IF Len(gs) = 1 THEN gs[1]
    ELSE gs[1] \o <<".">> \o JoinDot(Tail(gs))

\* the version texts of exactly n groups, each taken from G
VersionTexts(n, G) == {JoinDot(gs) : gs \in [1..n -> G]}

CandidateNames ==
    {pre \o v \o sep \o d \o suf :
        pre \in Prefixes,
        v \in UNION {VersionTexts(n, Groups) : n \in 1..MaxGroups},
        sep \in Seps, d \in Descs, suf \in Suffixes}

InitParse ==
    /\ parseIn \in CandidateNames
    /\ parseOut = NoResult
    /\ EngineUnused
    /\ CompareIdle
    /\ SplitIdle
    /\ CreateIdle

\* processSQLFile hands the base name of a file to parseScriptVersion
ParseName ==
    /\ parseOut = NoResult
    /\ parseOut' = parseScriptVersion(parseIn)
    /\ UNCHANGED <<parseIn, cmpVars, splVars, crtVars, scripts, dbVars, runVars,
                   histVars>>

NextParse == ParseName

SpecParse == InitParse /\ [][NextParse]_vars

\* ------------------------------------------------------------------------
\* compareVersions on its own: versions put together from components
\* ------------------------------------------------------------------------

\* twenty nines: digits that write a number above the int range
Huge == [i \in 1..20 |-> "9"]

Components == {<<"2">>, <<"1", "0">>, Huge}

\* 1.2.0, 1.10.0, 1.0 and 1.0.0
ExampleVersions ==
    {<<<<"1">>, <<"2">>, <<"0">>>>, <<<<"1">>, <<"1", "0">>, <<"0">>>>,
     <<<<"1">>, <<"0">>>>, <<<<"1">>, <<"0">>, <<"0">>>>}

VersionPool ==
    UNION {[1..n -> Components] : n \in 1..MaxParts} \cup ExampleVersions

InitCompare ==
    /\ verA \in VersionPool
    /\ verB \in VersionPool
    /\ verC \in VersionPool
    /\ cmpOut = NoCompare
    /\ EngineUnused
    /\ ParseIdle
    /\ SplitIdle
    /\ CreateIdle

\* the less function of Migrate hands two versions to compareVersions
CompareVersions ==
    /\ cmpOut = NoCompare
    /\ cmpOut' = [ab |-> compareVersions(JoinDot(verA), JoinDot(verB)),
                  ba |-> compareVersions(JoinDot(verB), JoinDot(verA)),
                  bc |-> compareVersions(JoinDot(verB), JoinDot(verC)),
                  ac |-> compareVersions(JoinDot(verA), JoinDot(verC))]
    /\ UNCHANGED <<verA, verB, verC, parseIn, parseOut, splVars, crtVars, scripts, dbVars,
                   runVars, histVars>>

NextCompare == CompareVersions

SpecCompare == InitCompare /\ [][NextCompare]_vars

\* ------------------------------------------------------------------------
\* splitSQLStatements on its own: script texts put together from items, each
\* a statement with its terminator or a comment
\* ------------------------------------------------------------------------

\* text is what the item contributes to the script, stmt the statements it
\* stands for; kind tells what is special about it
ItemPool ==
    {[kind |-> "plain",   text |-> <<"a", ";">>,
                          stmt |-> <<<<"a">>>>],
     [kind |-> "plain",   text |-> <<" ", "b", " ", ";", "\n">>,
                          stmt |-> <<<<"b">>>>],
     [kind |-> "quoted",  text |-> <<"'", ";", "'", ";">>,
                          stmt |-> <<<<"'", ";", "'">>>>],
     [kind |-> "quoted",  text |-> <<"\"", "'", ";", "\"", ";">>,
                          stmt |-> <<<<"\"", "'", ";", "\"">>>>],
     [kind |-> "marker",  text |-> <<"'", "-", "-", "'", ";">>,
                          stmt |-> <<<<"'", "-", "-", "'">>>>],
     [kind |-> "quotedComment",
                          text |-> <<"'", "/", "*", ";", "*", "/", "'", ";">>,
                          stmt |-> <<<<"'", "/", "*", ";", "*", "/", "'">>>>],
     [kind |-> "line",    text |-> <<"-", "-", "c", "\n">>,
                          stmt |-> <<>>],
     [kind |-> "block",   text |-> <<"/", "*", "c", "*", "/">>,
                          stmt |-> <<>>],
     [kind |-> "empty",   text |-> <<" ", ";">>,
                          stmt |-> <<>>],
     [kind |-> "tail",    text |-> <<" ", "c", "\n">>,
                          stmt |-> <<<<"c">>>>],
     [kind |-> "escape",  text |-> <<"\\", ";", "a", ";">>,
                          stmt |-> <<<<"\\", ";", "a">>>>],
     [kind |-> "escape",  text |-> <<"'", "\\", "'", ";", "'", ";">>,
                          stmt |-> <<<<"'", "\\", "'", ";", "'">>>>],
     [kind |-> "escape",  text |-> <<"\\", "\"", "a", ";">>,
                          stmt |-> <<<<"\\", "\"", "a">>>>],
     [kind |-> "escape",  text |-> <<"\\", "\\", ";">>,
                          stmt |-> <<<<"\\", "\\">>>>]}

ScriptPool == UNION {[1..n -> ItemPool] : n \in 1..MaxItems}

\* the text of a script and the statements it stands for
RECURSIVE ScriptText(_)
ScriptText(items) ==
    IF items = <<>> THEN <<>> ELSE Head(items).text \o ScriptText(Tail(items))

RECURSIVE ScriptStatements(_)
ScriptStatements(items) ==
    IF items = <<>> THEN <<>> ELSE Head(items).stmt \o ScriptStatements(Tail(items))

InitSplit ==
    /\ splitIn \in ScriptPool
    /\ splitOut = NoSplit
    /\ EngineUnused
    /\ ParseIdle
    /\ CompareIdle
    /\ CreateIdle

\* executeScriptFile hands the content of a file to splitSQLStatements
SplitScript ==
    /\ splitOut = NoSplit
    /\ splitOut' = splitSQLStatements(ScriptText(splitIn))
    /\ UNCHANGED <<splitIn, parseIn, parseOut, cmpVars, crtVars, scripts, dbVars,
                   runVars, histVars>>

NextSplit == SplitScript

SpecSplit == InitSplit /\ [][NextSplit]_vars

\* ------------------------------------------------------------------------
\* createDatabase, called by InitDB before it connects
\* ------------------------------------------------------------------------

MaxPrefix == 4

AlreadyExists ==
    <<"a", "l", "r", "e", "a", "d", "y", " ", "e", "x", "i", "s", "t", "s">>

\* isDatabaseExistsError: "true", "false", or "panic" when the slice
\* expression err.Error()[len(err.Error())-15:] is out of range
isDatabaseExistsError(err) ==
    IF err = NoError THEN "false"
    ELSE IF err = <<"p", "q", ":", " ", "d", "a", "t", "a", "b", "a", "s", "e", " ", "\"">>
                  \o err \o <<"\"", " ">> \o AlreadyExists
         THEN "true"
    ELSE IF err = <<>> THEN "false"
    ELSE IF Len(err) - 15 < 0 THEN "panic"
    ELSE IF Tail_(err, Len(err) - 15 + 1) = AlreadyExists THEN "true"
    ELSE "false"

\* createDatabase once the connection to the server is open: the driver and
\* the answer of db.Exec to the CREATE DATABASE statement
createDatabase(driver, execErr) ==
    IF driver \in {"postgres", "postgresql"}
    THEN IF execErr = NoError THEN [panic |-> FALSE, err |-> NoError]
         ELSE CASE isDatabaseExistsError(execErr) = "panic" ->
                       [panic |-> TRUE, err |-> NoError]
                [] isDatabaseExistsError(execErr) = "false" ->
                       [panic |-> FALSE, err |-> execErr]
                [] OTHER ->
                       [panic |-> FALSE, err |-> NoError]
    ELSE [panic |-> FALSE, err |-> execErr]

\* the drivers InitDB calls createDatabase for
Drivers == {"postgres", "postgresql", "mysql", "mariadb"}

\* error texts: some characters, then nothing or the words "already exists"
ErrorTexts ==
    LET heads == UNION {[1..n -> {"p", " "}] : n \in 0..MaxPrefix}
    IN  {h \o e : h \in heads, e \in {<<>>, AlreadyExists}}

InitCreate ==
    /\ createIn \in [driver : Drivers, execErr : ErrorTexts \cup {NoError}]
    /\ createOut = NoCreate
    /\ EngineUnused
    /\ ParseIdle
    /\ CompareIdle
    /\ SplitIdle

\* gorm.Open or db.DB() fails: the statement is never sent
CreateDatabaseOpenFail ==
    /\ createOut = NoCreate
    /\ createOut' = [panic |-> FALSE, err |-> <<"o", "p", "e", "n">>]
    /\ UNCHANGED <<createIn, parseIn, parseOut, cmpVars, splVars, scripts, dbVars,
                   runVars, histVars>>

CreateDatabase ==
    /\ createOut = NoCreate
    /\ createOut' = createDatabase(createIn.driver, createIn.execErr)
    /\ UNCHANGED <<createIn, parseIn, parseOut, cmpVars, splVars, scripts, dbVars,
                   runVars, histVars>>

NextCreate == CreateDatabase \/ CreateDatabaseOpenFail

SpecCreate == InitCreate /\ [][NextCreate]_vars

\* ------------------------------------------------------------------------
\* What the files of the pool are, stated without the parser and the
\* comparator of the code
\* ------------------------------------------------------------------------

\* the names of the form V<a>.<b>.<c>__<description>.sql
WellNamed == {FTwo, FTen, FZero, FDup}

\* the names that begin with V and end in .sql
NamedLikeScript == FilePool \ {FNoPrefix}

\* the version a well named file claims, as numbers
NumericVersion(f) ==
    CASE f = FZero -> <<0, 0, 0>>
      [] f = FDup  -> <<1, 2, 0>>
      [] f = FTwo  -> <<1, 2, 0>>
      [] f = FTen  -> <<1, 10, 0>>
      [] OTHER     -> <<0 - 1, 0, 0>>

Lower(f, g) ==
    LET a == NumericVersion(f)
        b == NumericVersion(g)
    IN  \/ a[1] < b[1]
        \/ a[1] = b[1] /\ a[2] < b[2]
        \/ a[1] = b[1] /\ a[2] = b[2] /\ a[3] < b[3]

\* the statements of a script, in both versions of its content
StatementsOf(f) ==
    Range(splitSQLStatements(Original(f))) \cup Range(splitSQLStatements(Edited(f)))

\* the statements of the content a ledger row was computed from
RecordedStatements(r) == Range(splitSQLStatements(r.checksum[2]))

Returned(p) == pc[p] = "done"

\* ------------------------------------------------------------------------
\* Claims
\* ------------------------------------------------------------------------

\* C1: when the k-th statement of a script fails during Migrate, then after
\* Migrate returns the effects of statements 1..k-1 of that script are not
\* observable in the database and no ledger row exists for its version.
C1_StatementFailureRollsBack ==
    \A p \in Procs :
        (Returned(p) /\ errKind[p] = "exec") =>
            /\ \A j \in 1..(k[p] - 1) :
                  effects[cur[p].statements[j]] = effects0[p][cur[p].statements[j]]
            /\ ~\E r \in ledger : r.version = cur[p].version

\* C2: after a Migrate run has returned, every script has either both its
\* statements' effects and its ledger row persisted, or neither.
C2_AllOrNothing ==
    \A p \in Procs :
        Returned(p) =>
            \A f \in DOMAIN scripts \cap WellNamed :
                \/ /\ \E r \in ledger : r.script = f
                   /\ \A r \in ledger :
                         r.script = f => \A s \in RecordedStatements(r) : effects[s] >= 1
                \/ /\ ~\E r \in ledger : r.script = f
                   /\ \A s \in StatementsOf(f) : effects[s] = 0

\* C4: over any sequence of sequential Migrate runs, failing ones included,
\* no statement of a script takes durable effect more than once.
C4_ExactlyOnce ==
    \A s \in AllStatements : effects[s] <= 1

\* the files of the directory that Migrate lists and can parse
Discovered == DOMAIN scripts \cap NamedLikeScript \cap WellNamed

\* C3: a Migrate run that follows a successful run executes no statement and
\* leaves the ledger as it was; it returns success unless the ledger or a
\* file cannot be read; and when the successful run was the first one, every
\* script has then been applied exactly once.
C3_SecondRunDoesNothing ==
    \A p \in Procs :
        prevResult[p] = "ok" =>
            /\ runLog[p] = <<>>
            /\ ledger = ledger0[p]
            /\ ~tx[p].open
            /\ Returned(p) => (result[p] = "ok" \/ errKind[p] \in {"load", "glob", "read"})
            /\ runs = 2 =>
                  \A f \in Discovered :
                      /\ Cardinality({r \in ledger : r.script = f}) = 1
                      /\ \A r \in ledger :
                            r.script = f => \A s \in RecordedStatements(r) : effects[s] = 1

\* a second run has returned success after a first one that applied a script
C3_Witness ==
    \E p \in Procs :
        /\ Returned(p) /\ result[p] = "ok" /\ prevResult[p] = "ok" /\ runs = 2
        /\ Discovered # {}
        /\ skipLog[p] # <<>>

\* the files of a directory that Migrate lists and can parse
DiscoveredIn(dir) == DOMAIN dir \cap NamedLikeScript \cap WellNamed

\* the <<file, statement>> pairs a full application of a directory executes
ExpectedPairs(dir) ==
    UNION {{<<f, st>> : st \in Range(splitSQLStatements(dir[f]))} :
              f \in DiscoveredIn(dir)}

\* position of a statement in the content of its file
StatementIndex(dir, f, st) ==
    CHOOSE i \in 1..Len(splitSQLStatements(dir[f])) :
        splitSQLStatements(dir[f])[i] = st

\* all files validly named, no two of them with the same version
CleanDirectory(dir) ==
    /\ DOMAIN dir \subseteq WellNamed
    /\ \A f, g \in DOMAIN dir : f # g => NumericVersion(f) # NumericVersion(g)

\* C5: in the first run on an empty database, with validly named scripts of
\* pairwise distinct versions and no failing operation, Migrate creates the
\* ledger table, executes every statement of every script exactly once,
\* scripts in strictly ascending version order and statements in source
\* order, writes exactly one ledger row per script and returns success.
C5_FirstRunAppliesAllInOrder ==
    \A p \in Procs :
        (/\ Returned(p) /\ runs = 1
         /\ CleanDirectory(scripts0[p])
         /\ errKind[p] \notin EnvErrors) =>
            /\ result[p] = "ok"
            /\ tableExists
            /\ Len(runLog[p]) = Cardinality(Range(runLog[p]))
            /\ Range(runLog[p]) = ExpectedPairs(scripts0[p])
            /\ \A i, j \in 1..Len(runLog[p]) :
                  i < j =>
                     \/ Lower(runLog[p][i][1], runLog[p][j][1])
                     \/ /\ runLog[p][i][1] = runLog[p][j][1]
                        /\ StatementIndex(scripts0[p], runLog[p][i][1], runLog[p][i][2]) <
                             StatementIndex(scripts0[p], runLog[p][j][1], runLog[p][j][2])
            /\ {r.script : r \in ledger} = DOMAIN scripts0[p]
            /\ Cardinality(ledger) = Cardinality(DOMAIN scripts0[p])
            /\ \A r \in ledger : r.checksum = Checksum(scripts0[p][r.script])

\* the first run finished without a failure where the order by name
\* (V1.10.0 before V1.2.0) is not the order by version
C5_Witness ==
    \E p \in Procs :
        /\ Returned(p) /\ runs = 1 /\ result[p] = "ok" /\ ~table0[p]
        /\ {FZero, FTwo, FTen} = DOMAIN scripts
        /\ Len(runLog[p]) >= 4

SameVersion(f, g) == NumericVersion(f) = NumericVersion(g)

\* C6 as stated: whenever the ledger holds a row for version N, every
\* discovered script with a version lower than N has a ledger row and its
\* effects are applied in the database.
C6_PrefixOfScripts ==
    \A r \in ledger :
        \A f \in Discovered :
            Lower(f, r.script) =>
                /\ \E r2 \in ledger : SameVersion(r2.script, f)
                /\ \A s \in Range(splitSQLStatements(Original(f))) : effects[s] >= 1

\* C6 (amended): whenever the ledger holds a row for version N, every
\* discovered script with a version lower than N has a ledger row for its
\* version, and the statements of the script which that row records have
\* taken effect; the row is the script's own row when no other file of the
\* directory claims the same version.
C6_PrefixOfVersions ==
    \A r \in ledger :
        \A f \in Discovered :
            Lower(f, r.script) =>
                \E r2 \in ledger :
                    /\ SameVersion(r2.script, f)
                    /\ \A s \in RecordedStatements(r2) : effects[s] >= 1
                    /\ (\A g \in Discovered : SameVersion(g, f) => g = f) => r2.script = f

\* the ledger holds the row of V1.10.0 and of the lower V1.2.0, two files
\* claim V1.2.0 and one of them has never run
C6_Witness ==
    /\ {FTwo, FDup, FTen} = DOMAIN scripts
    /\ \E r \in ledger : r.script = FTen
    /\ \E r \in ledger : r.script = FTwo
    /\ effects[<<"d">>] = 0

\* the globbed files of a directory whose names do not parse
Misnamed(dir) == (DOMAIN dir \cap NamedLikeScript) \ WellNamed

\* C7 as stated: a file whose name does not match the convention, init.sql
\* for one, makes Migrate return an error, before any script is applied.
C7_NonConformingFileFails ==
    \A p \in Procs :
        (Returned(p) /\ DOMAIN scripts0[p] \ WellNamed # {}) =>
            /\ result[p] = "error"
            /\ runLog[p] = <<>>

\* C7 (amended): a file that V*.sql lists and whose name does not match the
\* convention makes Migrate return an error, and no script of a version
\* above 0.0.0 is applied in that run; a file that V*.sql does not list,
\* init.sql for one, is ignored and fails nothing.
C7_ListedNonConformingFileFails ==
    \A p \in Procs :
        Returned(p) =>
            /\ Misnamed(scripts0[p]) # {} =>
                  /\ result[p] = "error"
                  /\ \A i \in 1..Len(runLog[p]) :
                        NumericVersion(runLog[p][i][1]) = <<0, 0, 0>>
            /\ Misnamed(scripts0[p]) = {} => errKind[p] # "parse"
            /\ \A i \in 1..Len(files[p]) : files[p][i] \in NamedLikeScript

\* Migrate stopped at Vbad.sql, with init.sql in the directory as well
C7_Witness ==
    \E p \in Procs :
        /\ Returned(p) /\ errKind[p] = "parse"
        /\ {FBad, FNoPrefix} \subseteq DOMAIN scripts0[p]
        /\ File(p) = FBad

\* C8: whenever a listed file has a name that fails the pattern, Migrate
\* returns an error and in that run no statement of any script has been
\* executed and no ledger row has been written.
C8_InvalidNameAbortsBeforeAnyScript ==
    \A p \in Procs :
        (Returned(p) /\ Misnamed(scripts0[p]) # {}) =>
            /\ result[p] = "error"
            /\ runLog[p] = <<>>
            /\ ledger = ledger0[p]

\* the names V<version>__<description>.sql whose version has exactly n
\* groups of digits, and what each of them says
GoodGroups == {g \in Groups : g # <<>> /\ \A i \in 1..Len(g) : g[i] \in Digits}
GoodDescs  == {d \in Descs \cup {s \o d : s \in {<<"_">>}, d \in Descs} :
                  d # <<>> /\ \A i \in 1..Len(d) : d[i] # "\n"}

Conventional(n) ==
    {[name |-> <<"V">> \o v \o <<"_", "_">> \o d \o Ext, version |-> v, description |-> d] :
        v \in VersionTexts(n, GoodGroups), d \in GoodDescs}

\* parseScriptVersion accepts exactly the names of Conventional(n), n in ns,
\* and returns their version and description
AcceptsExactly(ns) ==
    parseOut # NoResult =>
        LET conv == {c \in UNION {Conventional(n) : n \in ns} : c.name = parseIn}
        IN  /\ parseOut.err <=> conv = {}
            /\ \A c \in conv :
                  parseOut.version = c.version /\ parseOut.description = c.description

\* C9 as stated: parsing accepts exactly the names V<version>__<description>.sql
\* whose version is one or more dot-separated integers, and yields that
\* version and description; it rejects every other name.
C9_AcceptsAnyNumberOfGroups == AcceptsExactly(1..MaxGroups)

\* C9 (amended): parsing accepts exactly the names
\* V<version>__<description>.sql whose version is exactly three
\* dot-separated integers, and yields that version and description; it
\* rejects every other name, V1__a.sql, V1.2__a.sql and V1.2.3.4__a.sql
\* included.
C9_AcceptsThreeGroups == AcceptsExactly({3})

\* a three-group name was accepted
C9_Witness ==
    /\ parseIn = <<"V", "1", ".", "2", "0", ".", "1", "_", "_", "a">> \o Ext
    /\ parseOut # NoResult
    /\ ~parseOut.err
    /\ parseOut.version = <<"1", ".", "2", "0", ".", "1">>

C11_TamperingIsReported ==
    \A p \in Procs :
        (/\ Returned(p)
         /\ \E j \in 1..Len(skipLog[p]) : ~skipLog[p][j].matches) =>
            result[p] # "ok"

\* the order of two numerals by the numbers they write: digit by digit
\* after padding the shorter one with zeros on the left
NumeralLess(x, y) ==
    LET n  == IF Len(x) > Len(y) THEN Len(x) ELSE Len(y)
        px == [i \in 1..(n - Len(x)) |-> "0"] \o x
        py == [i \in 1..(n - Len(y)) |-> "0"] \o y
    IN  \E i \in 1..n :
            /\ DigitVal(px[i]) < DigitVal(py[i])
            /\ \A j \in 1..(i - 1) : px[j] = py[j]

\* component i of a version, 0 where the version has none
PartAt(v, i) == IF i <= Len(v) THEN v[i] ELSE <<"0">>

\* -1, 0 or 1: the lexicographic order of the number tuples of two versions
NumericOrder(a, b) ==
    LET n    == IF Len(a) > Len(b) THEN Len(a) ELSE Len(b)
        diff == {i \in 1..n : \/ NumeralLess(PartAt(a, i), PartAt(b, i))
                              \/ NumeralLess(PartAt(b, i), PartAt(a, i))}
    IN  IF diff = {} THEN 0
        ELSE LET i == CHOOSE m \in diff : \A j \in diff : m <= j
             IN  IF NumeralLess(PartAt(a, i), PartAt(b, i)) THEN -1 ELSE 1

\* C12: for all dotted integer version strings a and b, compareVersions(a, b)
\* is the lexicographic comparison of their integer tuples after padding the
\* shorter with zeros; 1.2.0 orders before 1.10.0 and 1.0 equals 1.0.0.
C12_NumericWithPadding ==
    cmpOut # NoCompare =>
        /\ cmpOut.ab = NumericOrder(verA, verB)
        /\ cmpOut.ba = NumericOrder(verB, verA)
        /\ cmpOut.bc = NumericOrder(verB, verC)
        /\ cmpOut.ac = NumericOrder(verA, verC)

\* C13: compareVersions is antisymmetric, compare(a, b) = -compare(b, a), and
\* transitive, compare(a, b) <= 0 and compare(b, c) <= 0 imply
\* compare(a, c) <= 0, for all versions of integer components.
C13_CompareIsAnOrdering ==
    cmpOut # NoCompare =>
        /\ cmpOut.ab = 0 - cmpOut.ba
        /\ (cmpOut.ab <= 0 /\ cmpOut.bc <= 0) => cmpOut.ac <= 0
        /\ (cmpOut.ab < 0 /\ cmpOut.bc <= 0) => cmpOut.ac < 0
        /\ (cmpOut.ab <= 0 /\ cmpOut.bc < 0) => cmpOut.ac < 0

\* three versions of different lengths in a strictly ascending chain, one of
\* them with a component above the int range
C13_Witness ==
    /\ verA = <<Huge>>
    /\ verB = <<<<"2">>>>
    /\ verC = <<<<"2">>, <<"1", "0">>>>
    /\ cmpOut # NoCompare
    /\ cmpOut.ab = 0 - 1 /\ cmpOut.bc = 0 - 1 /\ cmpOut.ac = 0 - 1

Kinds(items) == {items[i].kind : i \in 1..Len(items)}

\* C14: for any script text of N semicolon-terminated statements in which no
\* semicolon lies inside a quoted string, splitSQLStatements returns exactly
\* N statements, in source order.
C14_StatementCount ==
    (splitOut # NoSplit /\ Kinds(splitIn) \subseteq {"plain", "marker"}) =>
        /\ Len(splitOut) = Len(splitIn)
        /\ splitOut = ScriptStatements(splitIn)

\* C15: a semicolon between an opening quote and its matching closing quote
\* never terminates a statement and is kept in the text of the statement; a
\* quote of the other kind inside an open string does not close it.
C15_QuotedSemicolonIsLiteral ==
    (/\ splitOut # NoSplit
     /\ Kinds(splitIn) \subseteq {"plain", "quoted", "quotedComment"}) =>
        splitOut = ScriptStatements(splitIn)

\* C16: every line comment, on any line of the script, and every block
\* comment is removed before splitting: the statements returned are those of
\* the script without its comments, so that a comment line followed by one
\* statement yields exactly that statement.
C16_CommentsAreStripped ==
    (/\ splitOut # NoSplit
     /\ Kinds(splitIn) \subseteq {"plain", "line", "block"}) =>
        splitOut = ScriptStatements(splitIn)

\* the failures met while a script is applied
ApplyErrors == {"read", "begin", "exec", "record", "unique", "commit"}

\* the files of a run that were taken through the apply path before the
\* file the run is at
AppliedBefore(p) ==
    {files[p][i] : i \in {j \in 1..(idx[p] - 1) :
        \A m \in 1..Len(skipLog[p]) : skipLog[p][m].file # files[p][j]}}

\* C17: when applying script i fails (read, statement execution, ledger
\* insert or commit), Migrate returns an error at once: no statement of a
\* script ordered after i is executed in that run and no row is written for
\* one, and the effects and the ledger rows of the scripts committed earlier
\* in the same run stay persisted.
C17_AbortOnFirstFailure ==
    \A p \in Procs :
        (Returned(p) /\ errKind[p] \in ApplyErrors) =>
            /\ result[p] = "error"
            /\ idx[p] <= Len(files[p])
            /\ \A j \in 1..Len(runLog[p]) :
                  \E i \in 1..idx[p] : files[p][i] = runLog[p][j][1]
            /\ \A r \in ledger \ ledger0[p] :
                  \E i \in 1..(idx[p] - 1) : files[p][i] = r.script
            /\ \A f \in AppliedBefore(p) :
                  /\ \E r \in ledger \ ledger0[p] : r.script = f
                  /\ \A st \in Range(splitSQLStatements(scripts0[p][f])) :
                        /\ effects[st] >= 1
                        /\ \E j \in 1..Len(runLog[p]) : runLog[p][j] = <<f, st>>

\* a run stopped at the failing statement of its second script, after it had
\* committed the first one, with a third script still to come
C17_Witness ==
    \E p \in Procs :
        /\ Returned(p) /\ errKind[p] = "exec"
        /\ idx[p] = 2 /\ Len(files[p]) = 3
        /\ AppliedBefore(p) # {}
        /\ ledger # ledger0[p]

\* C18: whenever Migrate returns success, every discovered script was either
\* skipped because its version was in the applied map or applied and
\* committed in this run, and the ledger holds a successful row for the
\* version of every discovered script.
C18_SuccessMeansFullyMigrated ==
    \A p \in Procs :
        (Returned(p) /\ result[p] = "ok") =>
            \A f \in DOMAIN scripts0[p] \cap NamedLikeScript :
                /\ f \in WellNamed
                /\ \E r \in ledger : r.success /\ SameVersion(r.script, f)
                /\ \/ \E m \in 1..Len(skipLog[p]) : skipLog[p][m].file = f
                   \/ \E r \in ledger \ ledger0[p] : r.success /\ r.script = f

\* a run returned success after it skipped one script and applied another
C18_Witness ==
    \E p \in Procs :
        /\ Returned(p) /\ result[p] = "ok"
        /\ skipLog[p] # <<>>
        /\ ledger # ledger0[p]
        /\ Cardinality(DOMAIN scripts0[p] \cap NamedLikeScript) >= 2

\* C19: in every reachable state, directories in which two files claim the
\* same version and two Migrate invocations running at the same time
\* included, the ledger holds at most one row with success = true for any
\* version.
C19_OneRowPerVersion ==
    \A r1, r2 \in ledger :
        (r1.success /\ r2.success /\ r1.version = r2.version) => r1 = r2

\* both callers executed the statements of V1.2.0__u.sql, one row of 1.2.0
\* is in the ledger and the other caller was refused by the unique index
C19_Witness ==
    /\ \A p \in {1, 2} : \E j \in 1..Len(runLog[p]) : runLog[p][j][1] = FTwo
    /\ Cardinality({r \in ledger : r.version = <<"1", ".", "2", ".", "0">>}) = 1
    /\ \E p \in {1, 2} : Returned(p) /\ errKind[p] = "unique"

\* C20: an absent ledger table is created before anything else is done; when
\* the creation fails, or the ledger rows cannot be loaded, Migrate returns
\* an error and in that run no script is discovered, no transaction is
\* opened and no statement is executed.
C20_BootstrapFailureIsFatal ==
    \A p \in Procs :
        /\ pc[p] \in {"load", "glob", "process", "exec", "commit"} => tableExists
        /\ (Returned(p) /\ errKind[p] \notin {"none", "createTable"}) => tableExists
        /\ (Returned(p) /\ errKind[p] \in {"createTable", "load"}) =>
              /\ result[p] = "error"
              /\ files[p] = <<>>
              /\ executedVersions[p] = <<>>
              /\ cur[p] = NoScript
              /\ ~tx[p].open
              /\ runLog[p] = <<>>
              /\ skipLog[p] = <<>>
              /\ ledger = ledger0[p]
              /\ errKind[p] = "createTable" => ~table0[p]

\* the creation of the table failed in a directory that holds a script
C20_Witness ==
    \E p \in Procs :
        /\ Returned(p) /\ errKind[p] = "createTable"
        /\ ~tableExists
        /\ DOMAIN scripts0[p] \cap WellNamed # {}

\* C21: the ledger is append-only: no step of the engine updates or deletes
\* a row; every row it inserts has success = true and installedBy = "system"
\* and is inserted only after all statements of its script were executed
\* without error in that run.
C21_LedgerAppendOnly ==
    [][/\ ledger \subseteq ledger'
       /\ \A r \in ledger' \ ledger :
             /\ r.success
             /\ r.installedBy = "system"
             /\ \E p \in Procs :
                   /\ r.script = cur[p].file
                   /\ r.version = cur[p].version
                   /\ result[p] = "none"
                   /\ \A i \in 1..Len(cur[p].statements) :
                         \E j \in 1..Len(runLog[p]) :
                            runLog[p][j] = <<cur[p].file, cur[p].statements[i]>>]_vars

\* a run has added a row to a ledger that held a row of an earlier run
C21_Witness ==
    \E p \in Procs :
        /\ runs = 2
        /\ ledger0[p] # {}
        /\ ledger0[p] \subseteq ledger
        /\ ledger # ledger0[p]
        /\ \A r \in ledger : r.success /\ r.installedBy = "system"

\* C22: with two Migrate invocations interleaved on the same database and
\* the same directory no lock holds one of them back: a caller that is at a
\* statement of a script can execute it, whatever the other caller is doing
\* and whatever it has committed; so the statements of one script that was
\* not applied can be executed by both.
C22_NoLockAgainstDoubleApply ==
    \A p \in Procs :
        AtStatement(p) => ENABLED ExecStatement(p)

\* both callers loaded an empty applied map and both executed the first
\* statement of V1.2.0__u.sql, which has taken effect twice
C22_Witness ==
    /\ Procs = {1, 2}
    /\ \A p \in Procs :
          /\ executedVersions[p] = <<>>
          /\ \E j \in 1..Len(runLog[p]) : runLog[p][j] = <<FTwo, <<"u">>>>
    /\ effects[<<"u">>] = 2

\* the pairs of discovered files of a run that carry the same version, a
\* version that had no row when the run started
DuplicatePairs(p) ==
    {pair \in DiscoveredIn(scripts0[p]) \X DiscoveredIn(scripts0[p]) :
        /\ pair[1] # pair[2]
        /\ SameVersion(pair[1], pair[2])
        /\ \A r \in ledger0[p] : ~SameVersion(r.script, pair[1])}

\* C23: the applied map is read once per run and not updated during it: when
\* two discovered files carry the same version and the version is not in the
\* map at the start of the run, the second file is not skipped; unless the
\* run is stopped before by a failure of the environment or a bad file name,
\* both files have all their statements executed in that run (and the
\* insert of the second row is refused).
C23_DuplicatesBothApplied ==
    \A p \in Procs :
        \A pair \in DuplicatePairs(p) :
            /\ \A m \in 1..Len(skipLog[p]) : skipLog[p][m].file # pair[1]
            /\ (AtFile(p) /\ File(p) = pair[1]) => NotExecuted(p)
            /\ (Returned(p) /\ errKind[p] \notin EnvErrors \cup {"parse"}) =>
                  /\ errKind[p] = "unique"
                  /\ \A st \in Range(splitSQLStatements(scripts0[p][pair[1]])) :
                        \E j \in 1..Len(runLog[p]) : runLog[p][j] = <<pair[1], st>>

\* one run executed the statements of V1.2.0__u.sql and of V1.2.0__d.sql
C23_Witness ==
    \E p \in Procs :
        /\ Returned(p) /\ errKind[p] = "unique" /\ runs = 1
        /\ <<FTwo, FDup>> \in DuplicatePairs(p)
        /\ effects[<<"u">>] = 1 /\ effects[<<"w">>] = 1 /\ effects[<<"d">>] = 1

\* the discovered files of a run whose version had, when the run started,
\* rows with success = false only
FailedOnly(p) ==
    {f \in DiscoveredIn(scripts0[p]) :
        /\ \E r \in ledger0[p] : SameVersion(r.script, f)
        /\ \A r \in ledger0[p] : SameVersion(r.script, f) => ~r.success}

TailLast(items) ==
    \A i \in 1..Len(items) : items[i].kind = "tail" => i = Len(items)

\* C25: whatever the input text, every statement splitSQLStatements returns
\* is non-empty and has no white space at either end; for a script of
\* terminated statements, empty statements and an unterminated last one the
\* statements come back in source order, the empty ones are left out and the
\* text after the last semicolon is the last statement.
C25_OutputShape ==
    splitOut # NoSplit =>
        /\ \A i \in 1..Len(splitOut) :
              /\ splitOut[i] # <<>>
              /\ TrimSpace(splitOut[i]) = splitOut[i]
              /\ splitOut[i][1] \notin WhiteSpace
              /\ splitOut[i][Len(splitOut[i])] \notin WhiteSpace
        /\ (Kinds(splitIn) \subseteq {"plain", "empty", "tail"} /\ TailLast(splitIn)) =>
              splitOut = ScriptStatements(splitIn)

\* two statements with an empty one between them and text after the last
\* semicolon: three statements come back
C25_Witness ==
    /\ Len(splitIn) = 3
    /\ splitIn[1].kind = "plain"
    /\ splitIn[2].kind = "empty"
    /\ splitIn[3].kind = "tail"
    /\ splitOut = <<splitIn[1].stmt[1], <<"c">>>>

\* C26: the character that follows a backslash is copied into the statement
\* and neither opens a string, nor closes one, nor ends the statement,
\* whether it is a quote, a semicolon or a backslash and whether a string is
\* open or not: a script of plain, quoted and escaped statements splits into
\* exactly those statements.
C26_EscapedCharacterIsLiteral ==
    (/\ splitOut # NoSplit
     /\ Kinds(splitIn) \subseteq {"plain", "quoted", "escape"}) =>
        splitOut = ScriptStatements(splitIn)

\* an escaped quote outside a string, then an escaped quote inside one, then
\* an escaped backslash before a semicolon
C26_Witness ==
    /\ Len(splitIn) = 3
    /\ splitIn[1].text = <<"\\", "\"", "a", ";">>
    /\ splitIn[2].text = <<"'", "\\", "'", ";", "'", ";">>
    /\ splitIn[3].text = <<"\\", "\\", ";">>
    /\ splitOut = <<<<"\\", "\"", "a">>, <<"'", "\\", "'", ";", "'">>, <<"\\", "\\">>>>

\* C30: comment removal leaves the text of a quoted string alone: a string
\* literal holding "--" or "/* ... */" is found unchanged in a statement
\* that splitSQLStatements returns.
C30_LiteralsSurviveCommentRemoval ==
    (/\ splitOut # NoSplit
     /\ Kinds(splitIn) \subseteq {"plain", "quoted", "marker", "quotedComment"}) =>
        \A i \in 1..Len(splitIn) :
            splitIn[i].kind \in {"marker", "quotedComment"} =>
                \E j \in 1..Len(splitOut) : splitOut[j] = splitIn[i].stmt[1]

\* a piece of an error text: words of the format string, or an argument
Words(w) == [part |-> "words", val |-> <<w>>]
Name(text) == [part |-> "name", val |-> text]

\* what the layer below reports: os.ReadFile returns a *fs.PathError whose
\* text names the path it was given; an error of the database driver speaks
\* of the connection or of the SQL it was sent
PathError(file) == <<Words("open "), Name(file), Words(": "), Words("cause")>>
DriverError == <<Words("cause")>>

\* the text of the error processSQLFile returns for a script, as the pieces
\* fmt.Errorf puts together
ErrorMessage(kind, file, stmt) ==
    CASE kind = "parse"  -> <<Words("invalid script filename format: "), Name(file)>>
      [] kind = "read"   -> <<Words("failed to read SQL file: ")>> \o PathError(file)
      [] kind = "begin"  -> <<Words("failed to start transaction: ")>> \o DriverError
      [] kind = "exec"   -> <<Words("failed to execute SQL: "),
                              Words("failed to execute SQL statement: ")>>
                            \o DriverError \o <<Words("\nSQL: "), Name(stmt)>>
      [] kind \in {"record", "unique"} ->
                            <<Words("failed to record version info: ")>> \o DriverError
      [] kind = "commit" -> <<Words("failed to commit transaction: ")>> \o DriverError
      [] OTHER           -> <<>>

\* the error value a returned run hands to its caller
ErrorValue(p) ==
    ErrorMessage(errKind[p], File(p),
                 IF errKind[p] = "exec" THEN cur[p].statements[k[p]] ELSE <<>>)

\* a message names a script when it holds its file name or its version
Identifies(msg, file) ==
    \E i \in 1..Len(msg) :
        /\ msg[i].part = "name"
        /\ \/ msg[i].val = file
           \/ ~parseScriptVersion(file).err
                 /\ msg[i].val = parseScriptVersion(file).version

\* C27: whenever Migrate returns because reading, beginning, executing,
\* recording or committing a script failed, the error it returns holds the
\* underlying cause and the file name or the version of that script.
C27_ErrorsIdentifyScript ==
    \A p \in Procs :
        (Returned(p) /\ errKind[p] \in ApplyErrors) =>
            /\ \E i \in 1..Len(ErrorValue(p)) : ErrorValue(p)[i] = Words("cause")
            /\ Identifies(ErrorValue(p), File(p))

\* does an error text end in the words "already exists"
EndsInAlreadyExists(err) ==
    /\ Len(err) >= Len(AlreadyExists)
    /\ Tail_(err, Len(err) - Len(AlreadyExists) + 1) = AlreadyExists

\* C28: with a postgres driver, when CREATE DATABASE fails with an error
\* whose text ends in "already exists", createDatabase returns no error; for
\* any other error, however short its text, nothing panics and
\* createDatabase returns that error.
C28_ExistingDatabaseTolerated ==
    (/\ createOut # NoCreate
     /\ createOut.err # <<"o", "p", "e", "n">>
     /\ createIn.driver \in {"postgres", "postgresql"}
     /\ createIn.execErr # NoError) =>
        /\ ~createOut.panic
        /\ isDatabaseExistsError(createIn.execErr) # "panic"
        /\ IF EndsInAlreadyExists(createIn.execErr)
           THEN isDatabaseExistsError(createIn.execErr) = "true"
                /\ createOut.err = NoError
           ELSE isDatabaseExistsError(createIn.execErr) = "false"
                /\ createOut.err = createIn.execErr

\* the discovered files of a run that had no successful row when the run
\* started while a row of a higher version was there
OutOfOrder(p) ==
    {f \in DiscoveredIn(scripts0[p]) :
        /\ \A r \in ledger0[p] : r.success => ~SameVersion(r.script, f)
        /\ \E r \in ledger0[p] : r.success /\ Lower(f, r.script)}

\* C29: a script whose version is not in the applied map is applied even
\* when the ledger holds rows of higher versions: Migrate takes it through
\* the apply path, and a run that no failure of the environment stops
\* returns success with the statements of the script executed and its row in
\* the ledger.
C29_OutOfOrderIsApplied ==
    \A p \in Procs :
        \A f \in OutOfOrder(p) :
            /\ (AtFile(p) /\ File(p) = f) => NotExecuted(p)
            /\ \A m \in 1..Len(skipLog[p]) : skipLog[p][m].file # f
            /\ (Returned(p) /\ errKind[p] \notin EnvErrors) =>
                  /\ result[p] = "ok"
                  /\ \A st \in Range(splitSQLStatements(scripts0[p][f])) :
                        \E j \in 1..Len(runLog[p]) : runLog[p][j] = <<f, st>>
                  /\ \E r \in ledger : r.script = f /\ r.success

\* V1.10.0__t.sql was applied by the first run, V1.2.0__u.sql came into the
\* directory afterwards and the second run applied it
C29_Witness ==
    \E p \in Procs :
        /\ FTwo \in OutOfOrder(p)
        /\ \E r \in ledger0[p] : r.script = FTen /\ r.success
        /\ Returned(p)
        /\ result[p] = "ok"
        /\ \E j \in 1..Len(runLog[p]) : runLog[p][j] = <<FTwo, <<"u">>>>
        /\ \E r \in ledger : r.script = FTwo /\ r.success

\* the files of a run that have been dealt with or are being dealt with
Reached(p) == IF idx[p] <= Len(files[p]) THEN idx[p] ELSE Len(files[p])

\* C31: a run of Migrate has at most one transaction open; a transaction is
\* open only for the script being applied, whose version is not in the
\* applied map and whose file was read; and every transaction that was
\* opened has been ended by one rollback or one commit attempt, never both,
\* when Migrate turns to the next script or returns.
C31_TransactionDiscipline ==
    \A p \in Procs :
        LET ended == tx[p].rollbacks + tx[p].commits
        IN  /\ tx[p].opened - ended = IF tx[p].open THEN 1 ELSE 0
            /\ tx[p].opened + Len(skipLog[p]) <= Reached(p)
            /\ tx[p].open =>
                  /\ pc[p] \in {"exec", "commit"}
                  /\ cur[p].file = File(p)
                  /\ cur[p].version \notin DOMAIN executedVersions[p]
                  /\ cur[p].content = scripts[cur[p].file]
            /\ pc[p] \notin {"exec", "commit"} =>
                  /\ ~tx[p].open
                  /\ tx[p].opened = ended
            /\ (Returned(p) /\ result[p] = "ok") =>
                  /\ tx[p].rollbacks = 0
                  /\ tx[p].commits = tx[p].opened
                  /\ tx[p].opened + Len(skipLog[p]) = Len(files[p])

\* the second run skipped the script the first had applied, committed one
\* transaction, rolled back the next and returned
C31_Witness ==
    \E p \in Procs :
        /\ Returned(p)
        /\ runs = 2
        /\ Len(skipLog[p]) = 1
        /\ tx[p].opened = 2
        /\ tx[p].commits = 1
        /\ tx[p].rollbacks = 1
        /\ errKind[p] \in {"exec", "record"}

====
